---------------------------- MODULE Spec2Model ----------------------------
(***************************************************************************)
(* ircgrep: a grep for weechat IRC logs (src/src/main.rs,                  *)
(* src/src/line_view.rs).                                                  *)
(*                                                                         *)
(* Text is modelled as a sequence of one-character strings, byte offsets   *)
(* are 0-based as in Rust, and s[a..b] is Slice(s, a, b).  The model has   *)
(* two specifications over the same variables:                             *)
(*   Spec      - main(): validate_settings, get_log_files, and the loop    *)
(*               over the files with process_file / process_file_count;    *)
(*   SpecMatch - match_line and print_line applied to one line, with the   *)
(*               settings and the line drawn from bounded sets.            *)
(***************************************************************************)
EXTENDS Integers, Sequences, FiniteSets, TLC

VARIABLES
    settings,     \* struct Settings (main.rs 21-32), fixed for the run
    pc,           \* position of main() / of the match_line harness
    fileIdx,      \* number of files whose processing has started
    input,        \* lines of the current file consumed so far (history)
    nread,        \* lines consumed in the whole run (history, bounds the run)
    print_after,  \* process_file: let mut print_after: i32
    context,      \* process_file: the CircularQueue, oldest element first
    out,          \* everything written to stdout, one record per line
    outStart,     \* Len(out) when the current file was opened (history)
    count,        \* process_file_count: let mut count
    line,         \* the line last handed to LineView::new
    parts,        \* SpecMatch only: the fields the line was built from
    mt            \* the MatchType match_line returned for that line

vars == <<settings, pc, fileIdx, input, nread, print_after, context, out,
          outStart, count, line, parts, mt>>

(***************************************************************************)
(* Bounds.                                                                 *)
(***************************************************************************)
MaxLines == 3      \* lines read in one run of Spec
MaxFiles == 2      \* files processed in one run of Spec
MaxContext == 2    \* largest --context value
MaxMsgLen == 4     \* SpecMatch: longest message

TAB == "\t"

Min(a, b) == IF a < b THEN a ELSE b

\* Rust's s[a..b] on a sequence of characters: 0-based, half-open.
Slice(s, a, b) == SubSeq(s, a + 1, b)

SeqsUpTo(S, n) == UNION {[1..k -> S] : k \in 0..n}

RECURSIVE Reverse(_)
Reverse(s) == IF s = <<>> THEN <<>> ELSE Reverse(Tail(s)) \o <<Head(s)>>

(***************************************************************************)
(* line_view.rs                                                            *)
(***************************************************************************)

\* str::find(ch): Some(offset of the first ch) or None.
find(s, ch) ==
    IF \E i \in 1..Len(s) : s[i] = ch
    THEN [some |-> TRUE,
          v |-> (CHOOSE i \in 1..Len(s) :
                    s[i] = ch /\ \A j \in 1..(i - 1) : s[j] # ch) - 1]
    ELSE [some |-> FALSE, v |-> 0]

\* LineView::new splitting the message off at the last tab of the line.
LineViewLastTab(l) ==
    LET tabs == {i \in 1..Len(l) : l[i] = TAB} IN
    IF Cardinality(tabs) < 2
    THEN [ok |-> FALSE, line |-> l, first_tab |-> 0, second_tab |-> 0]
    ELSE [ok |-> TRUE, line |-> l,
          first_tab |-> (CHOOSE i \in tabs : \A j \in tabs : i <= j) - 1,
          second_tab |-> (CHOOSE i \in tabs : \A j \in tabs : i >= j) - 1]

\* LineView::new taking the end of the line for a missing second tab.
LineViewLenient(l) ==
    LET first == find(l, TAB) IN
    IF ~first.some
    THEN [ok |-> FALSE, line |-> l, first_tab |-> 0, second_tab |-> 0]
    ELSE LET second == find(Slice(l, first.v + 1, Len(l)), TAB) IN
         [ok |-> TRUE, line |-> l, first_tab |-> first.v,
          second_tab |-> IF second.some THEN second.v + first.v + 1 ELSE Len(l)]

\* LineView::new: both unwrap()s panic when the tab is missing (ok = FALSE).
LineViewNew(l) ==
    LET first == find(l, TAB) IN
    IF ~first.some
    THEN [ok |-> FALSE, line |-> l, first_tab |-> 0, second_tab |-> 0]
    ELSE LET second == find(Slice(l, first.v + 1, Len(l)), TAB) IN
         IF ~second.some
         THEN [ok |-> FALSE, line |-> l, first_tab |-> first.v, second_tab |-> 0]
         ELSE [ok |-> TRUE, line |-> l, first_tab |-> first.v,
               second_tab |-> second.v + first.v + 1]

message(lv) == Slice(lv.line, lv.second_tab + 1, Len(lv.line))

\* nick() without the strip_prefix of line 14.
NickUnstripped(lv) == Slice(lv.line, lv.first_tab + 1, lv.second_tab)

nick(lv) ==
    LET n == Slice(lv.line, lv.first_tab + 1, lv.second_tab) IN
    IF n # <<>> /\ n[1] \in {"@", "+"} THEN Tail(n) ELSE n

timestamp(lv) == Slice(lv.line, 0, lv.first_tab)

is_join(lv) ==
    LET n == nick(lv) IN
    n = <<"<", "-", "-">> \/ n = <<"-", "-">> \/ n = <<"-", "-", ">">>

(***************************************************************************)
(* main.rs: match_line                                                     *)
(***************************************************************************)

MatchAt(hay, pat, i) ==
    i + Len(pat) <= Len(hay) /\ Slice(hay, i, i + Len(pat)) = pat

\* A search that resumes one character after the start of a match.
RECURSIVE OverlappingIndices(_, _, _)
OverlappingIndices(hay, pat, from) ==
    LET hits == {i \in from..Len(hay) : MatchAt(hay, pat, i)} IN
    IF hits = {} THEN <<>>
    ELSE LET i == CHOOSE h \in hits : \A g \in hits : h <= g IN
         <<<<i, i + Len(pat)>>>> \o OverlappingIndices(hay, pat, i + 1)

\* str::match_indices(&pattern_string) with a non-empty pattern: the (start,
\* end) of each match, the search resuming at the end of the previous match.
RECURSIVE FindFrom(_, _, _)
FindFrom(hay, pat, from) ==
    LET hits == {i \in from..Len(hay) : MatchAt(hay, pat, i)} IN
    IF hits = {} THEN <<>>
    ELSE LET i == CHOOSE h \in hits : \A g \in hits : h <= g IN
         <<<<i, i + Len(pat)>>>> \o FindFrom(hay, pat, i + Len(pat))

\* match_indices resuming inside the previous match.
MatchIndicesOverlapping(hay, pat) == OverlappingIndices(hay, pat, 0)

match_indices(hay, pat) == FindFrom(hay, pat, 0)

\* Regex::captures_iter, group 0 of each capture.  The patterns of the model
\* hold no regex metacharacter, so the regex is the literal and the matches
\* are its successive non-overlapping occurrences.
captures_iter(hay, pat) == FindFrom(hay, pat, 0)

Skip == [type |-> "Skip", spans |-> <<>>]
NoMatch == [type |-> "NoMatch", spans |-> <<>>]
MatchNick == [type |-> "MatchNick", spans |-> <<>>]
Match(v) == [type |-> "Match", spans |-> v]

\* match_line with the nickname test moved before the join test.
MatchLineNickFirst(s, lv) ==
    IF s.nickname # <<>> /\ s.nickname # nick(lv) THEN NoMatch
    ELSE IF s.strip_joins /\ is_join(lv) THEN Skip
    ELSE IF s.pattern_string = <<>> THEN MatchNick
    ELSE LET v == IF ~s.fixed THEN captures_iter(message(lv), s.pattern_string)
                  ELSE match_indices(message(lv), s.pattern_string)
         IN IF v # <<>> THEN Match(v) ELSE NoMatch

match_line(s, lv) ==
    IF s.strip_joins /\ is_join(lv) THEN Skip
    ELSE IF s.nickname # <<>> /\ s.nickname # nick(lv) THEN NoMatch
    ELSE IF s.pattern_string = <<>> THEN MatchNick
    ELSE LET v == IF ~s.fixed THEN captures_iter(message(lv), s.pattern_string)
                  ELSE match_indices(message(lv), s.pattern_string)
         IN IF v # <<>> THEN Match(v) ELSE NoMatch

(***************************************************************************)
(* main.rs: print_line.  A written line is a record: by names the          *)
(* statement that wrote it, text is the line with the styling removed,     *)
(* head is what was written before the message, pieces are the parts of    *)
(* the message in the order written, each marked (red, bold) or not.       *)
(***************************************************************************)

Plain(s) == [s |-> s, marked |-> FALSE]
Marked(s) == [s |-> s, marked |-> TRUE]

RECURSIVE PiecesText(_)
PiecesText(ps) == IF ps = <<>> THEN <<>> ELSE Head(ps).s \o PiecesText(Tail(ps))

\* The loop of lines 87-90: for each span, msg[0..p.0] and then msg[p.0..p.1].
RECURSIVE SpanPieces(_, _)
SpanPieces(msg, matches) ==
    IF matches = <<>> THEN <<>>
    ELSE LET p == Head(matches) IN
         <<Plain(Slice(msg, 0, p[1])), Marked(Slice(msg, p[1], p[2]))>>
             \o SpanPieces(msg, Tail(matches))

print_line(lv, matches) ==
    LET msg == message(lv)
        head == timestamp(lv) \o <<TAB>> \o nick(lv) \o <<TAB>>
        last == matches[Len(matches)][2]
        pieces == SpanPieces(msg, matches) \o <<Plain(Slice(msg, last, Len(msg)))>>
    IN [by |-> "print_line", head |-> head, pieces |-> pieces,
        text |-> head \o PiecesText(pieces)]

\* writeln!(writer, "{}", s): a line written verbatim.
Written(by, s) == [by |-> by, head |-> <<>>, pieces |-> <<Plain(s)>>, text |-> s]


(***************************************************************************)
(* circular_queue::CircularQueue as process_file uses it.  The queue is a  *)
(* sequence, oldest element first.  iter() goes from the most recently     *)
(* pushed element to the oldest one (the crate's asc_iter() is the one     *)
(* that goes oldest first).  A queue of capacity 0 stays empty: 0 is the   *)
(* capacity of every run without --context (main.rs 261-264).              *)
(***************************************************************************)

with_capacity(cap) == <<>>

\* A push that takes a capacity of 0 for a capacity of 1.
PushAtLeastOne(q, cap, x) ==
    IF Len(q) < cap \/ q = <<>> THEN Append(q, x) ELSE Append(Tail(q), x)

\* A push that never evicts.
PushUnbounded(q, cap, x) == Append(q, x)

push(q, cap, x) ==
    IF cap = 0 THEN q
    ELSE IF Len(q) < cap THEN Append(q, x)
    ELSE Append(Tail(q), x)

iter(q) == Reverse(q)

(***************************************************************************)
(* main.rs: the arms of process_file's match.  st is the loop's state:     *)
(* [context, print_after, out]; each arm returns the state after it.       *)
(* print_after is an i32 and is set by `settings.context as i32`, which    *)
(* keeps every value below 2^31, so every value of the model.              *)
(***************************************************************************)

RECURSIVE WriteAll(_, _)
WriteAll(by, ls) ==
    IF ls = <<>> THEN <<>> ELSE <<Written(by, Head(ls))>> \o WriteAll(by, Tail(ls))

\* The Match arm adding `context` to the counter instead of setting it.
MatchArmAddsCounter(s, st, l, m) ==
    [context |-> <<>>,
     print_after |-> st.print_after + s.context,
     out |-> st.out \o WriteAll("context", iter(st.context))
                    \o <<print_line(LineViewNew(l), m)>>]

\* MatchType::Match(m), lines 116-123.
MatchArm(s, st, l, m) ==
    [context |-> <<>>,
     print_after |-> s.context,
     out |-> st.out \o WriteAll("context", iter(st.context))
                    \o <<print_line(LineViewNew(l), m)>>]

\* MatchType::MatchNick, lines 124-131.
MatchNickArm(s, st, l) ==
    [context |-> <<>>,
     print_after |-> s.context,
     out |-> st.out \o WriteAll("context", iter(st.context))
                    \o <<Written("nick", l)>>]

\* The NoMatch arm echoing every line, whatever the counter.
NoMatchArmEchoesAll(s, st, l) ==
    [context |-> push(st.context, s.context, l),
     print_after |-> IF st.print_after > 0 THEN st.print_after - 1 ELSE st.print_after,
     out |-> st.out \o <<Written("echo", l)>>
                    \o (IF st.print_after - 1 = 0
                        THEN <<Written("separator", <<"-", "-">>)>>
                        ELSE <<>>)]

\* The NoMatch arm writing the separator after every echoed line.
NoMatchArmAlwaysSeparator(s, st, l) ==
    [context |-> push(st.context, s.context, l),
     print_after |-> IF st.print_after > 0 THEN st.print_after - 1 ELSE st.print_after,
     out |-> IF st.print_after > 0
             THEN st.out \o <<Written("echo", l), Written("separator", <<"-", "-">>)>>
             ELSE st.out]

\* MatchType::NoMatch, lines 132-142.
NoMatchArm(s, st, l) ==
    [context |-> push(st.context, s.context, l),
     print_after |-> IF st.print_after > 0 THEN st.print_after - 1 ELSE st.print_after,
     out |-> IF st.print_after > 0
             THEN st.out \o <<Written("echo", l)>>
                         \o (IF st.print_after - 1 = 0
                             THEN <<Written("separator", <<"-", "-">>)>>
                             ELSE <<>>)
             ELSE st.out]

\* A Skip arm that still remembers the line as context.
SkipArmPushes(s, st, l) == [st EXCEPT !.context = push(st.context, s.context, l)]

\* MatchType::Skip => continue, line 143.
SkipArm(s, st, l) == st

\* One iteration of the loop of lines 111-146 on a well-formed line.
process_line(s, st, l) ==
    LET m == match_line(s, LineViewNew(l)) IN
    CASE m.type = "Match" -> MatchArm(s, st, l, m.spans)
      [] m.type = "MatchNick" -> MatchNickArm(s, st, l)
      [] m.type = "NoMatch" -> NoMatchArm(s, st, l)
      [] m.type = "Skip" -> SkipArm(s, st, l)

(***************************************************************************)
(* main.rs: process_file_count                                             *)
(***************************************************************************)

\* A count of matching lines instead of matches.
CountArmPerLine(c, m) ==
    CASE m.type = "Match" -> c + 1
      [] m.type = "MatchNick" -> c + 1
      [] OTHER -> c

\* The match of lines 162-166.
CountArm(c, m) ==
    CASE m.type = "Match" -> c + Len(m.spans)
      [] m.type = "MatchNick" -> c + 1
      [] OTHER -> c

DigitChar == <<"0", "1", "2", "3", "4", "5", "6", "7", "8", "9">>

\* Display for an unsigned integer: its decimal digits.
RECURSIVE ToDecimal(_)
ToDecimal(n) ==
    IF n < 10 THEN <<DigitChar[n + 1]>>
    ELSE ToDecimal(n \div 10) \o <<DigitChar[(n % 10) + 1]>>

\* The file name of the k-th file of the run.
FileName(k) == <<"f">> \o ToDecimal(k)

\* The writeln! of lines 169-175: file name, ":", count.
Summary(k, c) == Written("summary", FileName(k) \o <<":">> \o ToDecimal(c))

(***************************************************************************)
(* Inputs of Spec.                                                         *)
(***************************************************************************)

LineA == <<"1", TAB, "@", "o", TAB, "a", "a", "a", "a">>
LineB == <<"2", TAB, "b", TAB, "a", "a", "b">>
LineC == <<"3", TAB, "o", TAB, "b">>
LineD == <<"4", TAB, "-", "-", TAB, "b">>
LineM == <<"5", TAB, "o">>
LineN == <<"6">>

Lines == {LineA, LineB, LineC, LineD, LineM, LineN}

\* The settings main() can build from the command line (lines 225-265); the
\* runs of Spec search fixed strings.
ProcSettings ==
    [nickname : {<<>>, <<"o">>},
     pattern_string : {<<>>, <<"a", "a">>},
     fixed : {TRUE},
     context : 0..MaxContext,
     strip_joins : BOOLEAN,
     strip_time_stamps : BOOLEAN,
     count : BOOLEAN]

NoParts == [ts |-> <<>>, speaker |-> <<>>, msg |-> <<>>]

Init ==
    /\ settings \in ProcSettings
    /\ pc = "validate"
    /\ fileIdx = 0
    /\ input = <<>>
    /\ nread = 0
    /\ print_after = 0
    /\ context = <<>>
    /\ out = <<>>
    /\ outStart = 0
    /\ count = 0
    /\ line = <<>>
    /\ parts = NoParts
    /\ mt = NoMatch

(***************************************************************************)
(* main.rs: validate_settings, get_log_files, main                         *)
(***************************************************************************)

\* validate_settings without the strip_time_stamps test.
RejectedForgetsTimestamps(s) ==
    \/ s.count /\ (s.strip_joins \/ s.context > 0)
    \/ s.nickname = <<>> /\ s.pattern_string = <<>>

\* The two tests of validate_settings that end in std::process::exit(1).  (The
\* Regex::new of line 220 cannot fail on the patterns of the model.)
Rejected(s) ==
    \/ s.count /\ (s.strip_joins \/ s.strip_time_stamps \/ s.context > 0)
    \/ s.nickname = <<>> /\ s.pattern_string = <<>>

ValidateSettings ==
    /\ pc = "validate"
    /\ pc' = IF Rejected(settings) THEN "exit" ELSE "enumerate"
    /\ UNCHANGED <<settings, fileIdx, input, nread, print_after, context, out,
                   outStart, count, line, parts, mt>>

GetLogFiles ==
    /\ pc = "enumerate"
    /\ pc' = "loop"
    /\ UNCHANGED <<settings, fileIdx, input, nread, print_after, context, out,
                   outStart, count, line, parts, mt>>

\* process_file with print_after and context living across calls.
ProcessFileKeepsState ==
    /\ pc = "loop"
    /\ ~settings.count
    /\ fileIdx < MaxFiles
    /\ fileIdx' = fileIdx + 1
    /\ input' = <<>>
    /\ outStart' = Len(out)
    /\ pc' = "stream"
    /\ UNCHANGED <<settings, nread, print_after, context, out, count, line,
                   parts, mt>>

\* for f in files { process_file(...) }: the next file, lines 108-109.
ProcessFile ==
    /\ pc = "loop"
    /\ ~settings.count
    /\ fileIdx < MaxFiles
    /\ fileIdx' = fileIdx + 1
    /\ print_after' = 0
    /\ context' = with_capacity(settings.context)
    /\ input' = <<>>
    /\ outStart' = Len(out)
    /\ pc' = "stream"
    /\ UNCHANGED <<settings, nread, out, count, line, parts, mt>>

\* for f in files { process_file_count(...) }: the next file, line 156.
ProcessFileCount ==
    /\ pc = "loop"
    /\ settings.count
    /\ fileIdx < MaxFiles
    /\ fileIdx' = fileIdx + 1
    /\ count' = 0
    /\ input' = <<>>
    /\ outStart' = Len(out)
    /\ pc' = "count"
    /\ UNCHANGED <<settings, nread, print_after, context, out, line, parts, mt>>

\* The files are exhausted: main returns Ok(()).
MainReturn ==
    /\ pc = "loop"
    /\ pc' = "done"
    /\ UNCHANGED <<settings, fileIdx, input, nread, print_after, context, out,
                   outStart, count, line, parts, mt>>

(***************************************************************************)
(* main.rs: process_file, one action per arm                               *)
(***************************************************************************)

LoopState == [context |-> context, print_after |-> print_after, out |-> out]

\* The next line of the file is l, well formed, and match_line says type t.
Reads(l, t) ==
    /\ nread < MaxLines
    /\ LineViewNew(l).ok
    /\ match_line(settings, LineViewNew(l)).type = t
    /\ line' = l
    /\ mt' = match_line(settings, LineViewNew(l))
    /\ input' = Append(input, l)
    /\ nread' = nread + 1

Becomes(st) ==
    /\ context' = st.context
    /\ print_after' = st.print_after
    /\ out' = st.out

StreamMatch ==
    /\ pc = "stream"
    /\ \E l \in Lines :
          /\ Reads(l, "Match")
          /\ Becomes(MatchArm(settings, LoopState, l, mt'.spans))
    /\ UNCHANGED <<settings, pc, fileIdx, outStart, count, parts>>

StreamMatchNick ==
    /\ pc = "stream"
    /\ \E l \in Lines :
          /\ Reads(l, "MatchNick")
          /\ Becomes(MatchNickArm(settings, LoopState, l))
    /\ UNCHANGED <<settings, pc, fileIdx, outStart, count, parts>>

StreamNoMatch ==
    /\ pc = "stream"
    /\ \E l \in Lines :
          /\ Reads(l, "NoMatch")
          /\ Becomes(NoMatchArm(settings, LoopState, l))
    /\ UNCHANGED <<settings, pc, fileIdx, outStart, count, parts>>

StreamSkip ==
    /\ pc = "stream"
    /\ \E l \in Lines :
          /\ Reads(l, "Skip")
          /\ Becomes(SkipArm(settings, LoopState, l))
    /\ UNCHANGED <<settings, pc, fileIdx, outStart, count, parts>>

\* LineView::new panics on a line with fewer than two tabs.
StreamPanic ==
    /\ pc = "stream"
    /\ nread < MaxLines
    /\ \E l \in Lines :
          /\ ~LineViewNew(l).ok
          /\ line' = l
          /\ input' = Append(input, l)
    /\ nread' = nread + 1
    /\ pc' = "panic"
    /\ UNCHANGED <<settings, fileIdx, print_after, context, out, outStart,
                   count, parts, mt>>

\* The file has no more lines: process_file returns Ok(()).
StreamEof ==
    /\ pc = "stream"
    /\ pc' = "loop"
    /\ UNCHANGED <<settings, fileIdx, input, nread, print_after, context, out,
                   outStart, count, line, parts, mt>>

(***************************************************************************)
(* main.rs: process_file_count                                             *)
(***************************************************************************)

CountLine ==
    /\ pc = "count"
    /\ \E l \in Lines :
          /\ \E t \in {"Match", "MatchNick", "NoMatch", "Skip"} : Reads(l, t)
          /\ count' = CountArm(count, mt')
    /\ UNCHANGED <<settings, pc, fileIdx, print_after, context, out, outStart,
                   parts>>

CountPanic ==
    /\ pc = "count"
    /\ nread < MaxLines
    /\ \E l \in Lines :
          /\ ~LineViewNew(l).ok
          /\ line' = l
          /\ input' = Append(input, l)
    /\ nread' = nread + 1
    /\ pc' = "panic"
    /\ UNCHANGED <<settings, fileIdx, print_after, context, out, outStart,
                   count, parts, mt>>

\* The file has no more lines: the summary is written, lines 169-177.
CountEof ==
    /\ pc = "count"
    /\ out' = Append(out, Summary(fileIdx, count))
    /\ pc' = "loop"
    /\ UNCHANGED <<settings, fileIdx, input, nread, print_after, context,
                   outStart, count, line, parts, mt>>

Next ==
    \/ ValidateSettings
    \/ GetLogFiles
    \/ ProcessFile
    \/ ProcessFileCount
    \/ MainReturn
    \/ StreamMatch
    \/ StreamMatchNick
    \/ StreamNoMatch
    \/ StreamSkip
    \/ StreamPanic
    \/ StreamEof
    \/ CountLine
    \/ CountPanic
    \/ CountEof

Spec == Init /\ [][Next]_vars

(***************************************************************************)
(* SpecMatch: match_line and print_line on one line.                       *)
(***************************************************************************)

MatchSettings ==
    [nickname : {<<>>, <<"o">>, <<"-", "-">>},
     pattern_string : SeqsUpTo({"a", "b"}, 2),
     fixed : BOOLEAN,
     context : {0},
     strip_joins : BOOLEAN,
     strip_time_stamps : {FALSE},
     count : {FALSE}]

Speakers ==
    {<<"o">>, <<"@", "o">>, <<"+", "o">>, <<"O">>, <<"@", "@", "o">>,
     <<"-", "-">>, <<"@", "-", "-">>, <<"<", "-", "-">>, <<"-", "-", ">">>,
     <<>>, <<"@">>}

Messages ==
    SeqsUpTo({"a", "b"}, MaxMsgLen) \cup {<<"a", TAB, "a">>, <<TAB>>, <<TAB, "a">>}

MatchParts == [ts : {<<>>, <<"1">>}, speaker : Speakers, msg : Messages]

LineOf(p) == p.ts \o <<TAB>> \o p.speaker \o <<TAB>> \o p.msg

InitMatch ==
    /\ settings \in MatchSettings
    /\ pc = "m_start"
    /\ fileIdx = 0
    /\ input = <<>>
    /\ nread = 0
    /\ print_after = 0
    /\ context = <<>>
    /\ out = <<>>
    /\ outStart = 0
    /\ count = 0
    /\ line = <<>>
    /\ parts = NoParts
    /\ mt = NoMatch

ApplyMatchLine ==
    /\ pc = "m_start"
    /\ \E p \in MatchParts :
          /\ parts' = p
          /\ line' = LineOf(p)
          /\ mt' = match_line(settings, LineViewNew(LineOf(p)))
    /\ pc' = "m_classified"
    /\ UNCHANGED <<settings, fileIdx, input, nread, print_after, context, out,
                   outStart, count>>

ApplyPrintLine ==
    /\ pc = "m_classified"
    /\ mt.type = "Match"
    /\ out' = <<print_line(LineViewNew(line), mt.spans)>>
    /\ pc' = "m_printed"
    /\ UNCHANGED <<settings, fileIdx, input, nread, print_after, context,
                   outStart, count, line, parts, mt>>

NextMatch == ApplyMatchLine \/ ApplyPrintLine

SpecMatch == InitMatch /\ [][NextMatch]_vars

(***************************************************************************)
(* Properties of process_file (Spec).                                      *)
(***************************************************************************)

Texts(rs) == [i \in 1..Len(rs) |-> rs[i].text]

LastN(q, k) == SubSeq(q, Len(q) - k + 1, Len(q))

\* What the current file has written so far.
FileOut == SubSeq(out, outStart + 1, Len(out))

\* The lines of the current file that were classified (a line on which
\* LineView::new panicked was not).
Consumed == IF pc = "panic" THEN SubSeq(input, 1, Len(input) - 1) ELSE input

Class(l) == match_line(settings, LineViewNew(l)).type

IsMatch(t) == t \in {"Match", "MatchNick"}

\* The NoMatch lines of ls that follow its last matching line, in input order.
RECURSIVE NoMatchSince(_)
NoMatchSince(ls) ==
    IF ls = <<>> THEN <<>>
    ELSE LET l == ls[Len(ls)]
             front == SubSeq(ls, 1, Len(ls) - 1)
         IN IF IsMatch(Class(l)) THEN <<>>
            ELSE IF Class(l) = "NoMatch" THEN Append(NoMatchSince(front), l)
            ELSE NoMatchSince(front)

\* process_file is, or was last, at work on a file.
Streaming == ~settings.count /\ fileIdx > 0 /\ pc \in {"stream", "loop", "done", "panic"}

\* This step of process_file reads a line that match_line calls a match.
MatchStep == pc = "stream" /\ nread' = nread + 1 /\ pc' = "stream" /\ IsMatch(mt'.type)

\* This step of process_file reads a line that match_line calls Skip.
SkipStep == pc = "stream" /\ nread' = nread + 1 /\ pc' = "stream" /\ mt'.type = "Skip"

\* C1: at a match the lines of the context window are written oldest first,
\* all of them before the matching line, and the window is empty afterwards,
\* for Match and MatchNick alike.
C1_FlushOldestFirst ==
    [][MatchStep =>
          /\ Len(out') = Len(out) + Len(context) + 1
          /\ \A i \in 1..Len(context) : out'[Len(out) + i].text = context[i]
          /\ out'[Len(out')].by \in {"print_line", "nick"}
          /\ context' = <<>>]_vars

\* The window never holds more than `context` lines, and they are the last
\* min(context, n) of the n NoMatch lines since the previous match (or the
\* start of the file).
C2_Window ==
    Streaming =>
        LET n == NoMatchSince(Consumed) IN
        /\ Len(context) <= settings.context
        /\ context = LastN(n, Min(settings.context, Len(n)))

\* A match flushes min(context, n) lines.
C2_Flushed ==
    MatchStep =>
        Len(out') - Len(out) - 1 = Min(settings.context, Len(NoMatchSince(input)))

\* C2: in every state of process_file the window holds at most `context`
\* lines, the last min(context, n) of the n lines classified NoMatch since the
\* previous match or the start of the file; so a match flushes min(context, n)
\* lines.
C2_WindowBounded == [](C2_Window) /\ [][C2_Flushed]_vars

\* C2 witness: a match has just flushed a window that had evicted a line.
C2_Witness ==
    /\ pc = "stream"
    /\ IsMatch(mt.type)
    /\ settings.context >= 1
    /\ Len(input) >= 1
    /\ Len(NoMatchSince(SubSeq(input, 1, Len(input) - 1))) > settings.context
    /\ Len(FileOut) = settings.context + 1

\* Some line of ls is a match.
HasMatch(ls) == \E i \in 1..Len(ls) : IsMatch(Class(ls[i]))

\* What the file has written after the record of its last matching line.
AfterLastMatch ==
    LET f == FileOut
        js == {j \in 1..Len(f) : f[j].by \in {"print_line", "nick"}}
        j == CHOOSE x \in js : \A y \in js : y <= x
    IN SubSeq(f, j + 1, Len(f))

\* C3: with context = c >= 1, of the k NoMatch lines that follow a match the
\* first min(k, c) are echoed verbatim in input order, one "--" follows the
\* c-th echoed line iff k >= c, and the later ones are not echoed.
C3_AfterMatchEcho ==
    (Streaming /\ settings.context >= 1 /\ HasMatch(Consumed)) =>
        LET n == NoMatchSince(Consumed)
            k == Len(n)
            c == settings.context
        IN /\ Texts(AfterLastMatch)
                = SubSeq(n, 1, Min(k, c)) \o (IF k >= c THEN <<<<"-", "-">>>> ELSE <<>>)
           /\ k > c => context = LastN(n, c)

\* C3 witness: more NoMatch lines than `context` have followed a match.
C3_Witness ==
    /\ pc = "stream"
    /\ settings.context >= 1
    /\ HasMatch(input)
    /\ Len(NoMatchSince(input)) > settings.context
    /\ Len(AfterLastMatch) = settings.context + 1

\* C4: the record written for a matching line, Match or MatchNick, is the
\* timestamp, a tab, the speaker without its '@' or '+' prefix, a tab, and
\* the message.  (Stated for the records of lines with at most one span; how
\* several spans are rendered is C5.)
C4_MatchRecord ==
    (Streaming /\ pc = "stream" /\ IsMatch(mt.type) /\ Len(mt.spans) <= 1) =>
        LET lv == LineViewNew(line) IN
        out[Len(out)].text
            = timestamp(lv) \o <<TAB>> \o nick(lv) \o <<TAB>> \o message(lv)

\* A Skip line changes neither the window nor the counter and writes nothing.
C6_SkipFrame == SkipStep => UNCHANGED <<context, print_after, out>>

NotSkipped(l) == Class(l) # "Skip"

RECURSIVE RunLines(_, _, _)
RunLines(s, st, ls) ==
    IF ls = <<>> THEN st ELSE RunLines(s, process_line(s, st, Head(ls)), Tail(ls))

\* The file's output, window and counter are those of the same lines with the
\* Skip lines removed.
C6_SameAsWithout ==
    Streaming =>
        LET r == RunLines(settings,
                          [context |-> <<>>, print_after |-> 0, out |-> <<>>],
                          SelectSeq(Consumed, NotSkipped))
        IN /\ r.out = FileOut
           /\ r.context = context
           /\ r.print_after = print_after

\* C6: a line classified Skip changes nothing (window and after-match counter
\* unchanged, nothing written), so the output of any input is the output of
\* the same input without its Skip lines.
C6_SkipInvisible == [](C6_SameAsWithout) /\ [][C6_SkipFrame]_vars

\* C6 witness: a line was skipped while the window held a line and the
\* after-match counter was running.
C6_Witness ==
    /\ pc = "stream"
    /\ mt.type = "Skip"
    /\ context # <<>>
    /\ print_after > 0
    /\ FileOut # <<>>

(***************************************************************************)
(* Properties of match_line and print_line (SpecMatch).                    *)
(***************************************************************************)

Classified == pc \in {"m_classified", "m_printed"}

\* A speaker field without one leading '@' or '+'.
StripOne(sp) == IF sp # <<>> /\ (sp[1] = "@" \/ sp[1] = "+") THEN Tail(sp) ELSE sp

JoinSpeakers == {<<"<", "-", "-">>, <<"-", "-", ">">>, <<"-", "-">>}

\* pat occurs in msg at offset i.
OccursAt(msg, pat, i) ==
    /\ i + Len(pat) <= Len(msg)
    /\ \A j \in 1..Len(pat) : msg[i + j] = pat[j]

\* The marked pieces of a record, in the order written.
RECURSIVE MarkedOf(_)
MarkedOf(ps) ==
    IF ps = <<>> THEN <<>>
    ELSE (IF Head(ps).marked THEN <<Head(ps).s>> ELSE <<>>) \o MarkedOf(Tail(ps))

\* C5: print_line splits the message at the boundaries of its n >= 1 spans:
\* the pieces written, styling removed, concatenate to the message, and the
\* marked pieces are the n span slices.
C5_PiecesAreMessage ==
    pc = "m_printed" =>
        /\ PiecesText(out[1].pieces) = parts.msg
        /\ MarkedOf(out[1].pieces)
             = [k \in 1..Len(mt.spans) |->
                   SubSeq(parts.msg, mt.spans[k][1] + 1, mt.spans[k][2])]

\* C7: with strip_joins, a line whose speaker without its prefix is "<--",
\* "-->" or "--" is Skip whatever the nickname filter and the pattern; without
\* strip_joins no line is Skip.
C7_JoinsFirst ==
    Classified =>
        /\ (settings.strip_joins /\ StripOne(parts.speaker) \in JoinSpeakers) => mt = Skip
        /\ ~settings.strip_joins => mt.type # "Skip"

\* C7 witness: a join line whose speaker is the nickname filter is skipped.
C7_Witness ==
    /\ Classified
    /\ settings.strip_joins
    /\ settings.nickname = <<"-", "-">>
    /\ settings.pattern_string # <<>>
    /\ parts.speaker = <<"@", "-", "-">>
    /\ mt = Skip

\* C8: a line that is not Skip, under a nickname filter: NoMatch unless the
\* filter is the speaker without its prefix; if it is, MatchNick when the
\* pattern is empty, and otherwise what the pattern search of the message
\* gives (that of the same message under another speaker and no filter).
C8_NicknameFilter ==
    (Classified /\ mt.type # "Skip" /\ settings.nickname # <<>>) =>
        IF settings.nickname # StripOne(parts.speaker) THEN mt = NoMatch
        ELSE IF settings.pattern_string = <<>> THEN mt = MatchNick
        ELSE mt = match_line([settings EXCEPT !.nickname = <<>>, !.strip_joins = FALSE],
                             LineViewNew(<<"9", TAB, "x", TAB>> \o parts.msg))

\* C8 witness: speaker "@o" passes the filter "o" and the pattern decides.
C8_Witness ==
    /\ Classified
    /\ settings.nickname = <<"o">>
    /\ parts.speaker = <<"@", "o">>
    /\ settings.pattern_string = <<"a">>
    /\ mt.type = "Match"

C14_RoundTrip ==
    Classified =>
        LET lv == LineViewNew(line)
            raw == SubSeq(line, lv.first_tab + 2, lv.second_tab)
        IN /\ lv.ok
           /\ \A i \in 1..Len(timestamp(lv)) : timestamp(lv)[i] # TAB
           /\ \A i \in 1..Len(raw) : raw[i] # TAB
           /\ timestamp(lv) = parts.ts
           /\ raw = parts.speaker
           /\ message(lv) = parts.msg
           /\ timestamp(lv) \o <<TAB>> \o raw \o <<TAB>> \o message(lv) = line
           /\ nick(lv) = StripOne(raw)
           /\ nick(lv) = raw \/ <<"@">> \o nick(lv) = raw \/ <<"+">> \o nick(lv) = raw

\* C14 witness: a line whose message holds a third tab and whose speaker has
\* a prefix.
C14_Witness ==
    /\ Classified
    /\ parts.msg = <<"a", TAB, "a">>
    /\ parts.speaker = <<"@", "o">>
    /\ line = <<"1", TAB, "@", "o", TAB, "a", TAB, "a">>

(***************************************************************************)
(* Properties of process_file_count (Spec).                                *)
(***************************************************************************)

\* The sum over ls of the number of spans of each Match line and of 1 for
\* each MatchNick line.
RECURSIVE MatchTotal(_)
MatchTotal(ls) ==
    IF ls = <<>> THEN 0
    ELSE LET m == match_line(settings, LineViewNew(Head(ls))) IN
         (IF m.type = "Match" THEN Len(m.spans)
          ELSE IF m.type = "MatchNick" THEN 1 ELSE 0) + MatchTotal(Tail(ls))

\* C10: in count mode each file of well-formed lines gets one summary record,
\* written once its last line is consumed, and its count is the number of
\* spans of its Match lines plus the number of its MatchNick lines (0 for a
\* file without matches).
C10_CountSummary ==
    (settings.count /\ pc \in {"count", "loop", "done"}) =>
        /\ pc = "count" => Len(out) = fileIdx - 1
        /\ pc \in {"loop", "done"} => Len(out) = fileIdx
        /\ (pc \in {"loop", "done"} /\ fileIdx > 0) =>
              out[Len(out)].text
                  = FileName(fileIdx) \o <<":">> \o ToDecimal(MatchTotal(input))

\* C10 witness: a file with a two-span line and a one-span line is reported
\* with count 3.
C10_Witness ==
    /\ settings.count
    /\ pc = "loop"
    /\ input = <<LineA, LineB>>
    /\ out[Len(out)].text = FileName(fileIdx) \o <<":", "3">>

(***************************************************************************)
(* Malformed lines, validation, files (Spec).                              *)
(***************************************************************************)

TabCount(l) == Cardinality({i \in 1..Len(l) : l[i] = TAB})

\* Every classified line has two tabs; after the panic the last line read has
\* fewer, and in count mode its file has no summary.
C11_State ==
    /\ \A i \in 1..Len(Consumed) : TabCount(Consumed[i]) >= 2
    /\ pc = "panic" =>
          /\ TabCount(input[Len(input)]) < 2
          /\ settings.count => Len(out) = fileIdx - 1

\* Reading a line with fewer than two tabs classifies nothing, writes nothing
\* and ends in the panic; nothing happens after the panic.
C11_Step ==
    /\ (pc \in {"stream", "count"} /\ nread' = nread + 1 /\ TabCount(line') < 2) =>
          /\ pc' = "panic"
          /\ UNCHANGED <<out, mt, count, context, print_after>>
    /\ pc # "panic"

\* C11: a line with fewer than two tabs is never skipped or classified: in
\* streaming and in count mode processing stops there in an error state,
\* nothing is written for it or for a later line (in count mode no summary for
\* the file), whatever strip_joins, the nickname filter and the pattern are.
C11_MalformedStops == [](C11_State) /\ [][C11_Step]_vars

\* C11 witness: streaming with strip_joins and a nickname filter has written a
\* record and then panicked on a line with one tab.
C11_Witness ==
    /\ pc = "panic"
    /\ ~settings.count
    /\ settings.strip_joins
    /\ settings.nickname # <<>>
    /\ out # <<>>
    /\ TabCount(line) = 1

\* The options validate_settings must refuse.
Conflict ==
    \/ settings.count /\ settings.strip_joins
    \/ settings.count /\ settings.strip_time_stamps
    \/ settings.count /\ settings.context > 0
    \/ settings.nickname = <<>> /\ settings.pattern_string = <<>>

C12_State ==
    /\ pc = "validate" => (fileIdx = 0 /\ nread = 0 /\ out = <<>>)
    /\ pc = "exit" => (Conflict /\ fileIdx = 0 /\ nread = 0 /\ out = <<>>)
    /\ pc \in {"enumerate", "loop", "stream", "count", "done", "panic"} =>
          /\ settings.count =>
                (~settings.strip_joins /\ ~settings.strip_time_stamps
                    /\ settings.context = 0)
          /\ settings.nickname # <<>> \/ settings.pattern_string # <<>>

\* Validation is not run again, and nothing follows a rejection.
C12_Step == pc' # "validate" /\ pc # "exit"

\* C12: validation runs once, before any file is enumerated or processed, and
\* rejects the run (no file read, nothing written) when count comes with
\* strip_joins, strip_time_stamps or context > 0, or when nickname and pattern
\* are both empty; so while files are processed, count implies none of the
\* three, and nickname or pattern is non-empty.
C12_Validated == [](C12_State) /\ [][C12_Step]_vars

\* C12 witness: count with strip_time_stamps alone has been rejected.
C12_Witness ==
    /\ pc = "exit"
    /\ settings.count
    /\ settings.strip_time_stamps
    /\ ~settings.strip_joins
    /\ settings.context = 0
    /\ settings.nickname # <<>>

\* What the current file has written is what its lines alone produce, from an
\* empty window and a counter of 0.
C13_State ==
    Streaming =>
        LET r == RunLines(settings,
                          [context |-> <<>>, print_after |-> 0, out |-> <<>>],
                          Consumed)
        IN /\ out = SubSeq(out, 1, outStart) \o r.out
           /\ context = r.context
           /\ print_after = r.print_after

\* A file starts with an empty window and counter 0 and adds to the output of
\* the files before it; the end of a file writes nothing.
C13_Step ==
    /\ (pc = "loop" /\ pc' = "stream") =>
          (context' = <<>> /\ print_after' = 0 /\ out' = out /\ outStart' = Len(out))
    /\ (pc = "stream" /\ pc' = "loop") => out' = out

\* C13: window and after-match counter are per-file: each file starts with an
\* empty window and counter 0, so the output of a run is the concatenation of
\* what each file produces alone; a pending echo echoes no line of the next
\* file, buffered lines are not flushed by a match of the next file, and the
\* end of a file writes no separator.
C13_PerFileState == [](C13_State) /\ [][C13_Step]_vars

\* C13 witness: the first file ended right after a match with the echo
\* pending, and the first line of the second file, a NoMatch, was not echoed.
C13_Witness ==
    /\ pc = "stream"
    /\ fileIdx = 2
    /\ settings.context >= 1
    /\ outStart > 0
    /\ out[outStart].by \in {"print_line", "nick"}
    /\ Len(input) = 1
    /\ mt.type = "NoMatch"
    /\ FileOut = <<>>
    /\ context = <<line>>

(***************************************************************************)
(* What process_file writes (Spec).                                        *)
(***************************************************************************)

StartsWith(t, pre) == Len(t) >= Len(pre) /\ SubSeq(t, 1, Len(pre)) = pre

IsMatchLine(l) == IsMatch(Class(l))

IsMatchRecord(r) == r.by \in {"print_line", "nick"}

IsSeparator(r) == r.by = "separator"

\* C15: with --strip-timestamps the records process_file writes do not hold
\* the timestamp field of the input line, and without it they do (stated for
\* the record of a matching line, which is the last one written).
C15_TimestampsStripped ==
    (Streaming /\ pc = "stream" /\ IsMatch(mt.type)) =>
        (settings.strip_time_stamps
            <=> ~StartsWith(out[Len(out)].text,
                            timestamp(LineViewNew(line)) \o <<TAB>>))

\* C16: with context = 0 streaming reaches the end of every well-formed file
\* without error and writes one record per matching line, in order, and
\* nothing else: no context line, no "--"; the window is empty and the
\* after-match counter is 0 in every state.
C16_ContextZero ==
    (Streaming /\ settings.context = 0) =>
        LET f == FileOut
            m == SelectSeq(Consumed, IsMatchLine)
        IN /\ context = <<>>
           /\ print_after = 0
           /\ pc = "panic" => TabCount(input[Len(input)]) < 2
           /\ Len(f) = Len(m)
           /\ \A k \in 1..Len(f) :
                 /\ IsMatchRecord(f[k])
                 /\ StartsWith(f[k].text, timestamp(LineViewNew(m[k])) \o <<TAB>>)

\* C16 witness: with context = 0 a NoMatch line before and one after a match
\* have been read and one record is written.
C16_Witness ==
    /\ pc = "stream"
    /\ settings.context = 0
    /\ Len(input) = 3
    /\ Class(input[1]) = "NoMatch"
    /\ IsMatchLine(input[2])
    /\ Class(input[3]) = "NoMatch"
    /\ Len(FileOut) = 1

\* The counter stays within 0..context and the file has written no more
\* separators than match records.
C17_State ==
    Streaming =>
        /\ 0 <= print_after /\ print_after <= settings.context
        /\ Len(SelectSeq(FileOut, IsSeparator)) <= Len(SelectSeq(FileOut, IsMatchRecord))

\* A match sets the counter to `context` and writes no separator; a separator
\* is the last thing a step writes, right after the echo of the NoMatch line
\* that took the counter from 1 to 0.
C17_Step ==
    LET new == SubSeq(out', Len(out) + 1, Len(out')) IN
    /\ MatchStep =>
          /\ print_after' = settings.context
          /\ \A i \in 1..Len(new) : ~IsSeparator(new[i])
    /\ \A i \in 1..Len(new) :
          IsSeparator(new[i]) =>
              /\ i = Len(new) /\ i = 2
              /\ new[1].by = "echo" /\ new[1].text = line'
              /\ mt'.type = "NoMatch"
              /\ print_after = 1 /\ print_after' = 0

\* C17: a match while the after-match counter is positive sets it to exactly
\* `context` and writes no separator for the interrupted block; "--" is written
\* only right after an echoed NoMatch line that took the counter from 1 to 0;
\* so there are never more separators than matches and the counter stays
\* within 0..context.
C17_CounterReset == [](C17_State) /\ [][C17_Step]_vars

\* C17 witness: a match, one echoed NoMatch line, and a second match that
\* found the counter positive: it is `context` again and no "--" was written.
C17_Witness ==
    /\ pc = "stream"
    /\ settings.context >= 2
    /\ Len(input) = 3
    /\ IsMatchLine(input[1])
    /\ Class(input[2]) = "NoMatch"
    /\ IsMatchLine(input[3])
    /\ print_after = settings.context
    /\ SelectSeq(FileOut, IsSeparator) = <<>>

\* C18: no input line is written more than once: a line classified NoMatch is
\* in the output at most as often as it is in the input, also when it lies
\* within `context` lines after one match and before the next.
C18_NoDuplicates ==
    Streaming =>
        \A i \in 1..Len(Consumed) :
            Class(Consumed[i]) = "NoMatch" =>
                Cardinality({j \in 1..Len(FileOut) :
                                /\ FileOut[j].by \in {"echo", "context"}
                                /\ FileOut[j].text = Consumed[i]})
                    <= Cardinality({k \in 1..Len(Consumed) : Consumed[k] = Consumed[i]})

Abs(x) == IF x < 0 THEN -x ELSE x

\* Record r is the one written for the matching line l.
RecordOf(r, l) ==
    LET lv == LineViewNew(l)
        m == match_line(settings, lv)
    IN IF m.type = "MatchNick"
       THEN r.by = "nick" /\ r.text = l
       ELSE /\ r.by = "print_line"
            /\ r.head = timestamp(lv) \o <<TAB>> \o nick(lv) \o <<TAB>>
            /\ MarkedOf(r.pieces)
                 = [k \in 1..Len(m.spans) |->
                       SubSeq(message(lv), m.spans[k][1] + 1, m.spans[k][2])]

\* C19: over well-formed lines every matching line is written exactly once,
\* the matching lines in input order; every NoMatch line written lies within
\* `context` positions (Skip lines not counted) of a matching line; no other
\* input line is written.
C19_WhatIsEmitted ==
    Streaming =>
        LET f == FileOut
            ns == SelectSeq(Consumed, NotSkipped)
            m == SelectSeq(Consumed, IsMatchLine)
            r == SelectSeq(f, IsMatchRecord)
        IN /\ Len(r) = Len(m)
           /\ \A k \in 1..Len(r) : RecordOf(r[k], m[k])
           /\ \A j \in 1..Len(f) :
                 \/ IsMatchRecord(f[j])
                 \/ IsSeparator(f[j]) /\ f[j].text = <<"-", "-">>
                 \/ /\ f[j].by \in {"echo", "context"}
                    /\ \E p \in 1..Len(ns) :
                          /\ ns[p] = f[j].text
                          /\ Class(ns[p]) = "NoMatch"
                          /\ \E q \in 1..Len(ns) :
                                /\ IsMatchLine(ns[q])
                                /\ Abs(p - q) <= settings.context

\* C19 witness: a NoMatch line flushed before a match and one echoed after it.
C19_Witness ==
    /\ pc = "stream"
    /\ Len(input) = 3
    /\ Len(FileOut) = 4
    /\ FileOut[1].by = "context"
    /\ IsMatchRecord(FileOut[2])
    /\ FileOut[3].by = "echo"
    /\ IsSeparator(FileOut[4])

=============================================================================
